---------------------------- MODULE Spec2Model ----------------------------
(***************************************************************************)
(* Model of sway-core/src/language/ty/declaration/trait.rs:                *)
(* the typed trait declaration (TyTraitDecl), its context-threaded         *)
(* equality and hashing, type substitution (subst_inner) and the           *)
(* finalization of its provided items (type_check_finalize).               *)
(*                                                                         *)
(* The declaration engine is an arena: `store` is the sequence of          *)
(* declaration bodies and a handle's identity is its index in it.          *)
(***************************************************************************)
EXTENDS Integers, Sequences, FiniteSets, TLC

VARIABLES
    store,          \* declaration engine: id -> body
    parents,        \* declaration engine: id -> id of the parent (0: none)
    template,       \* the TyTraitDecl the type checker produced
    decl,           \* the TyTraitDecl being operated on (self)
    decl_mapping,   \* value of the local DeclMapping at the end of subst_inner
    instances,      \* history: the declarations subst_inner has produced
    handler,        \* number of diagnostics emitted into the Handler
    nfinal,         \* number of finalization calls made so far
    last,           \* the last operation: its receiver on entry, inputs, result,
                    \* and the operation before it
    cmp             \* operands and results of the last eq / hash evaluation

vars == <<store, parents, template, decl, decl_mapping, instances, handler,
          nfinal, last, cmp>>

----------------------------------------------------------------------------
(* Bounds of the model *)

\* largest number of entries (interface surface plus items) of a template
MaxEntries == 3
\* largest number of subst_inner calls in a behaviour
MaxSubst == 2
\* largest number of finalization calls in a behaviour
MaxFinalize == 2
\* largest number of entries of a declaration given to eq and hash
MaxCmpEntries == 2

----------------------------------------------------------------------------
(* Types and the type engine *)

TypeVars == {"T"}
ConcreteTypes == {"u64", "bool"}

\* TypeSubstMap: type variable -> replacement type (non-empty maps); the map
\* of an implementation also binds the trait's Self type
TypeSubstMaps ==
    [TypeVars -> ConcreteTypes] \cup {[t \in TypeVars \cup {"Self"} |-> "u64"]}

\* type_id.subst(type_mapping, engines)
ApplySubst(ty, m) == IF ty \in DOMAIN m THEN m[ty] ELSE ty

RECURSIVE SubstTypeParameters(_, _)
SubstTypeParameters(tps, m) ==
    IF tps = <<>> THEN <<>>
    ELSE <<ApplySubst(Head(tps), m)>> \o SubstTypeParameters(Tail(tps), m)

----------------------------------------------------------------------------
(* Variants and declaration bodies *)

InterfaceVariants == {"TraitFn", "Constant", "Type"}
ItemVariants == {"Fn", "Constant", "Type"}

\* the type a freshly type-checked body of each kind mentions:
\* fn f(self) -> T;  const C: u64;  type A = T;
BodyTy(kind) == IF kind = "Constant" THEN "u64" ELSE "T"

\* a body as the type checker stores it: not yet finalized; bad says that its
\* deferred type checking cannot succeed
NewBody(kind, bad) == [kind |-> kind, ty |-> BodyTy(kind), fin |-> FALSE, bad |-> bad]

\* decl.subst(type_mapping, engines) on a cloned body
SubstBody(body, m) == [body EXCEPT !.ty = ApplySubst(@, m)]

\* body.type_check_finalize(handler, ctx): whether it succeeds, and the body
\* it leaves when it does
FinalizeOk(body) == ~body.bad

FinalizeBody(body) == [body EXCEPT !.fin = TRUE]

----------------------------------------------------------------------------
(* Declaration engine *)

DeclEngineGet(st, id) == st[id]

DeclEngineReplace(st, id, body) == [st EXCEPT ![id] = body]

\* insert appends: the new identity is the next free index
DeclEngineInsert(st, body) == Append(st, body)

\* DeclMapping::insert
MappingInsert(mapping, old, new) == (old :> new) @@ mapping

EmptyMapping == <<>>

----------------------------------------------------------------------------
(* DeclRef::subst_types_and_insert_new and ..._with_parent: clone the body   *)
(* behind the handle, substitute it, insert the clone as a new entry.        *)
(* eng = [store, parents]; the result is the engine after the insertion and  *)
(* the identity of the new entry is Len(result.store).                       *)

SubstTypesAndInsertNew(id, m, eng) ==
    [store   |-> DeclEngineInsert(eng.store, SubstBody(DeclEngineGet(eng.store, id), m)),
     parents |-> Append(eng.parents, 0)]

SubstTypesAndInsertNewWithParent(id, m, eng) ==
    [store   |-> DeclEngineInsert(eng.store, SubstBody(DeclEngineGet(eng.store, id), m)),
     parents |-> Append(eng.parents, id)]

----------------------------------------------------------------------------
(* subst_inner. acc = [store, parents, decl_mapping, out]: the engine, the   *)
(* local DeclMapping and the entries rewritten so far.                       *)

\* SubstInterfaceItem forgetting replace_id: the entry keeps its old handle
SubstInterfaceItem_KeepsId(item, m, acc) ==
    LET eng == [store |-> acc.store, parents |-> acc.parents]
        new == IF item.variant = "TraitFn"
               THEN SubstTypesAndInsertNewWithParent(item.id, m, eng)
               ELSE SubstTypesAndInsertNew(item.id, m, eng)
        newId == Len(new.store)
    IN  [store        |-> new.store,
         parents      |-> new.parents,
         decl_mapping |-> IF item.variant \in {"TraitFn", "Constant"}
                          THEN MappingInsert(acc.decl_mapping, item.id, newId)
                          ELSE acc.decl_mapping,
         out          |-> Append(acc.out, item)]

\* SubstInterfaceItem recording associated types in the mapping as well
SubstInterfaceItem_MapsTypes(item, m, acc) ==
    LET eng == [store |-> acc.store, parents |-> acc.parents]
        new == IF item.variant = "TraitFn"
               THEN SubstTypesAndInsertNewWithParent(item.id, m, eng)
               ELSE SubstTypesAndInsertNew(item.id, m, eng)
        newId == Len(new.store)
    IN  [store        |-> new.store,
         parents      |-> new.parents,
         decl_mapping |-> MappingInsert(acc.decl_mapping, item.id, newId),
         out          |-> Append(acc.out, [item EXCEPT !.id = newId])]

\* SubstInterfaceItem inserting every clone with a parent association
SubstInterfaceItem_AllWithParent(item, m, acc) ==
    LET eng == [store |-> acc.store, parents |-> acc.parents]
        new == SubstTypesAndInsertNewWithParent(item.id, m, eng)
        newId == Len(new.store)
    IN  [store        |-> new.store,
         parents      |-> new.parents,
         decl_mapping |-> IF item.variant \in {"TraitFn", "Constant"}
                          THEN MappingInsert(acc.decl_mapping, item.id, newId)
                          ELSE acc.decl_mapping,
         out          |-> Append(acc.out, [item EXCEPT !.id = newId])]

\* the closure of the interface_surface loop, applied to one entry
SubstInterfaceItem(item, m, acc) ==
    LET eng == [store |-> acc.store, parents |-> acc.parents]
        new == IF item.variant = "TraitFn"
               THEN SubstTypesAndInsertNewWithParent(item.id, m, eng)
               ELSE SubstTypesAndInsertNew(item.id, m, eng)
        newId == Len(new.store)
    IN  [store        |-> new.store,
         parents      |-> new.parents,
         decl_mapping |-> IF item.variant \in {"TraitFn", "Constant"}
                          THEN MappingInsert(acc.decl_mapping, item.id, newId)
                          ELSE acc.decl_mapping,
         out          |-> Append(acc.out, [item EXCEPT !.id = newId])]

\* SubstItem recording the item in the mapping, as the surface loop does
SubstItem_Mapped(item, m, acc) ==
    LET eng == [store |-> acc.store, parents |-> acc.parents]
        new == SubstTypesAndInsertNewWithParent(item.id, m, eng)
        newId == Len(new.store)
    IN  [store        |-> new.store,
         parents      |-> new.parents,
         decl_mapping |-> MappingInsert(acc.decl_mapping, item.id, newId),
         out          |-> Append(acc.out, [item EXCEPT !.id = newId])]

\* SubstItem substituting the body in place, behind the old handle
SubstItem_InPlace(item, m, acc) ==
    [store        |-> DeclEngineReplace(acc.store, item.id,
                          SubstBody(DeclEngineGet(acc.store, item.id), m)),
     parents      |-> acc.parents,
     decl_mapping |-> acc.decl_mapping,
     out          |-> Append(acc.out, item)]

\* SubstItem inserting the clone of the body as it is, without substituting it
SubstItem_NoSubst(item, m, acc) ==
    LET store1 == DeclEngineInsert(acc.store, DeclEngineGet(acc.store, item.id))
    IN  [store        |-> store1,
         parents      |-> Append(acc.parents, item.id),
         decl_mapping |-> acc.decl_mapping,
         out          |-> Append(acc.out, [item EXCEPT !.id = Len(store1)])]

\* the closure of the items loop, applied to one item
SubstItem(item, m, acc) ==
    LET eng == [store |-> acc.store, parents |-> acc.parents]
        new == SubstTypesAndInsertNewWithParent(item.id, m, eng)
        newId == Len(new.store)
    IN  [store        |-> new.store,
         parents      |-> new.parents,
         decl_mapping |-> acc.decl_mapping,
         out          |-> Append(acc.out, [item EXCEPT !.id = newId])]

RECURSIVE SubstInterfaceSurface(_, _, _)
SubstInterfaceSurface(entries, m, acc) ==
    IF entries = <<>> THEN acc
    ELSE SubstInterfaceSurface(Tail(entries), m,
                               SubstInterfaceItem(Head(entries), m, acc))

RECURSIVE SubstItems(_, _, _)
SubstItems(entries, m, acc) ==
    IF entries = <<>> THEN acc
    ELSE SubstItems(Tail(entries), m, SubstItem(Head(entries), m, acc))

\* subst_inner substituting self_type as it does the type parameters
SubstInner_SubstSelfType(self, m, eng) ==
    LET acc0 == [store |-> eng.store, parents |-> eng.parents,
                 decl_mapping |-> EmptyMapping, out |-> <<>>]
        acc1 == SubstInterfaceSurface(self.interface_surface, m, acc0)
        acc2 == SubstItems(self.items, m, [acc1 EXCEPT !.out = <<>>])
    IN  [store        |-> acc2.store,
         parents      |-> acc2.parents,
         decl_mapping |-> acc2.decl_mapping,
         returned     |-> {},
         self         |-> [self EXCEPT
                              !.type_parameters = SubstTypeParameters(@, m),
                              !.self_type = ApplySubst(@, m),
                              !.interface_surface = acc1.out,
                              !.items = acc2.out]]

(* The whole of subst_inner on `self`. decl_mapping is the value its local    *)
(* DeclMapping has when the function ends, where it is dropped; returned is   *)
(* the set of DeclMappings the call hands to its caller: the function         *)
(* returns (), and neither self nor the engines take the local.               *)
SubstInner(self, m, eng) ==
    LET acc0 == [store |-> eng.store, parents |-> eng.parents,
                 decl_mapping |-> EmptyMapping, out |-> <<>>]
        acc1 == SubstInterfaceSurface(self.interface_surface, m, acc0)
        acc2 == SubstItems(self.items, m, [acc1 EXCEPT !.out = <<>>])
    IN  [store        |-> acc2.store,
         parents      |-> acc2.parents,
         decl_mapping |-> acc2.decl_mapping,
         returned     |-> {},
         self         |-> [self EXCEPT
                              !.type_parameters = SubstTypeParameters(@, m),
                              !.interface_surface = acc1.out,
                              !.items = acc2.out]]

----------------------------------------------------------------------------
(* Context-threaded equality and hashing. engines = the store. A hash is     *)
(* modelled by the sequence of values written into the Hasher: two hashes    *)
(* are equal when the same values were written in the same order.            *)

\* DeclRef eq / hash: through the store, on the body behind the handle
DeclRefEq(id, other_id, engines) ==
    DeclEngineGet(engines, id) = DeclEngineGet(engines, other_id)

DeclRefHash(id, engines) == <<ToString(DeclEngineGet(engines, id))>>

\* PartialEqWithEngines for TyTraitInterfaceItem
TyTraitInterfaceItemEq(self, other, engines) ==
    IF self.variant = "TraitFn" /\ other.variant = "TraitFn"
    THEN DeclRefEq(self.id, other.id, engines)
    ELSE IF self.variant = "Constant" /\ other.variant = "Constant"
    THEN DeclRefEq(self.id, other.id, engines)
    ELSE FALSE

\* PartialEqWithEngines for TyTraitItem
TyTraitItemEq(self, other, engines) ==
    IF self.variant = "Fn" /\ other.variant = "Fn"
    THEN DeclRefEq(self.id, other.id, engines)
    ELSE IF self.variant = "Constant" /\ other.variant = "Constant"
    THEN DeclRefEq(self.id, other.id, engines)
    ELSE FALSE

\* HashWithEngines for TyTraitInterfaceItem and for TyTraitItem
TyTraitInterfaceItemHash(self, engines) == DeclRefHash(self.id, engines)

TyTraitItemHash(self, engines) == DeclRefHash(self.id, engines)

\* eq of two vectors: same length and equal position by position
InterfaceSurfaceEq(xs, ys, engines) ==
    /\ Len(xs) = Len(ys)
    /\ \A i \in 1..Len(xs) : TyTraitInterfaceItemEq(xs[i], ys[i], engines)

ItemsEq(xs, ys, engines) ==
    /\ Len(xs) = Len(ys)
    /\ \A i \in 1..Len(xs) : TyTraitItemEq(xs[i], ys[i], engines)

\* hash of a vector: every element in turn into the same Hasher
RECURSIVE InterfaceSurfaceHash(_, _)
InterfaceSurfaceHash(xs, engines) ==
    IF xs = <<>> THEN <<>>
    ELSE TyTraitInterfaceItemHash(Head(xs), engines)
            \o InterfaceSurfaceHash(Tail(xs), engines)

RECURSIVE ItemsHash(_, _)
ItemsHash(xs, engines) ==
    IF xs = <<>> THEN <<>>
    ELSE TyTraitItemHash(Head(xs), engines) \o ItemsHash(Tail(xs), engines)

\* the entries of ys are those of xs in some order
SamePermuted(xs, ys, engines) ==
    /\ Len(xs) = Len(ys)
    /\ \E f \in [1..Len(xs) -> 1..Len(xs)] :
          /\ \A i, j \in 1..Len(xs) : i # j => f[i] # f[j]
          /\ \A i \in 1..Len(xs) : TyTraitInterfaceItemEq(xs[i], ys[f[i]], engines)

\* TyTraitDecl eq comparing the interface surface without regard to order
TyTraitDeclEq_Unordered(self, other, engines) ==
    /\ self.name = other.name
    /\ self.type_parameters = other.type_parameters
    /\ SamePermuted(self.interface_surface, other.interface_surface, engines)
    /\ ItemsEq(self.items, other.items, engines)
    /\ self.supertraits = other.supertraits
    /\ self.visibility = other.visibility

\* PartialEqWithEngines for TyTraitDecl
TyTraitDeclEq(self, other, engines) ==
    /\ self.name = other.name
    /\ self.type_parameters = other.type_parameters
    /\ InterfaceSurfaceEq(self.interface_surface, other.interface_surface, engines)
    /\ ItemsEq(self.items, other.items, engines)
    /\ self.supertraits = other.supertraits
    /\ self.visibility = other.visibility

\* HashWithEngines for TyTraitDecl: attributes and span are not hashed
TyTraitDeclHash(self, engines) ==
    <<self.name>>
        \o self.type_parameters
        \o <<self.self_type>>
        \o InterfaceSurfaceHash(self.interface_surface, engines)
        \o ItemsHash(self.items, engines)
        \o self.supertraits
        \o <<self.visibility>>

----------------------------------------------------------------------------
\* type_check_finalize returning early before the write-back
TypeCheckFinalizeItem_NoReplace(item, eng) ==
    IF item.variant \in {"Fn", "Constant"}
    THEN LET body == DeclEngineGet(eng.store, item.id)
         IN  IF FinalizeOk(body)
             THEN [store |-> eng.store, handler |-> eng.handler, ret |-> "Ok"]
             ELSE [store |-> eng.store, handler |-> eng.handler + 1, ret |-> "Err"]
    ELSE [store |-> eng.store, handler |-> eng.handler, ret |-> "Ok"]

\* type_check_finalize inserting the finalized body as a new entry
TypeCheckFinalizeItem_Inserts(item, eng) ==
    IF item.variant \in {"Fn", "Constant"}
    THEN LET body == DeclEngineGet(eng.store, item.id)
         IN  IF FinalizeOk(body)
             THEN [store   |-> DeclEngineInsert(eng.store, FinalizeBody(body)),
                   handler |-> eng.handler,
                   ret     |-> "Ok"]
             ELSE [store |-> eng.store, handler |-> eng.handler + 1, ret |-> "Err"]
    ELSE [store |-> eng.store, handler |-> eng.handler, ret |-> "Ok"]

\* type_check_finalize treating an associated type as the other variants
TypeCheckFinalizeItem_TypeToo(item, eng) ==
    LET body == DeclEngineGet(eng.store, item.id)
    IN  IF FinalizeOk(body)
        THEN [store   |-> DeclEngineReplace(eng.store, item.id, FinalizeBody(body)),
              handler |-> eng.handler,
              ret     |-> "Ok"]
        ELSE [store |-> eng.store, handler |-> eng.handler + 1, ret |-> "Err"]

\* type_check_finalize writing the clone back before it propagates the error
TypeCheckFinalizeItem_ReplaceFirst(item, eng) ==
    IF item.variant \in {"Fn", "Constant"}
    THEN LET body == DeclEngineGet(eng.store, item.id)
         IN  [store   |-> DeclEngineReplace(eng.store, item.id, FinalizeBody(body)),
              handler |-> IF FinalizeOk(body) THEN eng.handler ELSE eng.handler + 1,
              ret     |-> IF FinalizeOk(body) THEN "Ok" ELSE "Err"]
    ELSE [store |-> eng.store, handler |-> eng.handler, ret |-> "Ok"]

\* type_check_finalize refusing a body that has been finalized before
TypeCheckFinalizeItem_Once(item, eng) ==
    IF item.variant \in {"Fn", "Constant"}
    THEN LET body == DeclEngineGet(eng.store, item.id)
         IN  IF FinalizeOk(body) /\ ~body.fin
             THEN [store   |-> DeclEngineReplace(eng.store, item.id, FinalizeBody(body)),
                   handler |-> eng.handler,
                   ret     |-> "Ok"]
             ELSE [store |-> eng.store, handler |-> eng.handler + 1, ret |-> "Err"]
    ELSE [store |-> eng.store, handler |-> eng.handler, ret |-> "Ok"]

----------------------------------------------------------------------------
(* type_check_finalize of one TyTraitItem; eng = [store, handler]. A failing *)
(* body finalization has emitted its error into the handler before the       *)
(* ErrorEmitted sentinel is returned, and `?` returns it at once.            *)

TypeCheckFinalizeItem(item, eng) ==
    IF item.variant \in {"Fn", "Constant"}
    THEN LET body == DeclEngineGet(eng.store, item.id)
         IN  IF FinalizeOk(body)
             THEN [store   |-> DeclEngineReplace(eng.store, item.id, FinalizeBody(body)),
                   handler |-> eng.handler,
                   ret     |-> "Ok"]
             ELSE [store   |-> eng.store,
                   handler |-> eng.handler + 1,
                   ret     |-> "Err"]
    ELSE [store |-> eng.store, handler |-> eng.handler, ret |-> "Ok"]

(* The pass over a sequence of items: every item is finalized in turn, a     *)
(* failure is not propagated out of the loop, and the pass reports the       *)
(* sentinel once if any item failed. acc = [store, handler, failed].         *)
RECURSIVE FinalizeItemsLoop(_, _)
FinalizeItemsLoop(entries, acc) ==
    IF entries = <<>> THEN acc
    ELSE LET r == TypeCheckFinalizeItem(Head(entries),
                     [store |-> acc.store, handler |-> acc.handler])
         IN  FinalizeItemsLoop(Tail(entries),
                 [store   |-> r.store,
                  handler |-> r.handler,
                  failed  |-> acc.failed \/ r.ret = "Err"])

TypeCheckFinalizeItems(entries, eng) ==
    LET r == FinalizeItemsLoop(entries,
                 [store |-> eng.store, handler |-> eng.handler, failed |-> FALSE])
    IN  [store   |-> r.store,
         handler |-> r.handler,
         ret     |-> IF r.failed THEN "Err" ELSE "Ok"]

----------------------------------------------------------------------------
(* Initial states: a type-checked generic trait  trait Show<T> { ... }       *)
(* whose entries are stored in the declaration engine, one body per handle.  *)

NoMap == [t \in {} |-> "u64"]

\* no operation came before
NoOp == [op |-> "none", ret |-> ""]

NoCmp == [kind |-> "none", a |-> <<>>, b |-> <<>>, done |-> {}, eq |-> FALSE,
          ha |-> <<>>, hb |-> <<>>]

TyTraitDecl(surface, items) ==
    [name              |-> "Show",
     type_parameters   |-> <<"T">>,
     self_type         |-> "Self",
     interface_surface |-> surface,
     items             |-> items,
     supertraits       |-> <<>>,
     visibility        |-> "Public",
     attributes        |-> "attrs0",
     span              |-> "span0"]

\* the engine and the declaration after type checking a trait whose surface
\* has the variants sv and whose items have the variants iv; bad[i] says that
\* the body of item i cannot be finalized
TypeChecked(sv, iv, bad) ==
    LET ns == Len(sv)
        ni == Len(iv)
    IN  [store |-> [i \in 1..(ns + ni) |->
                      IF i <= ns THEN NewBody(sv[i], FALSE)
                                 ELSE NewBody(iv[i - ns], bad[i - ns])],
         decl  |-> TyTraitDecl([i \in 1..ns |-> [variant |-> sv[i], id |-> i]],
                               [i \in 1..ni |-> [variant |-> iv[i], id |-> ns + i]])]

Templates ==
    UNION { UNION { { TypeChecked(sv, iv, bad) :
                        sv \in [1..ns -> InterfaceVariants],
                        iv \in [1..ni -> ItemVariants],
                        bad \in [1..ni -> BOOLEAN] }
                    : ni \in 0..(MaxEntries - ns) }
            : ns \in 0..MaxEntries }

\* an associated type has no body to finalize: its flag is not a choice
WellFormed(t) ==
    \A j \in 1..Len(t.decl.items) :
        t.decl.items[j].variant = "Type" => ~t.store[t.decl.items[j].id].bad

Init ==
    \E t \in Templates :
        /\ WellFormed(t)
        /\ store = t.store
        /\ parents = [i \in 1..Len(t.store) |-> 0]
        /\ template = t.decl
        /\ decl = t.decl
        /\ decl_mapping = EmptyMapping
        /\ instances = <<>>
        /\ handler = 0
        /\ nfinal = 0
        /\ last = [op |-> "init", self |-> t.decl, m |-> NoMap, j |-> 0, ret |-> "",
                   returned |-> {}, prev |-> NoOp]
        /\ cmp = NoCmp

----------------------------------------------------------------------------
(* Substitution *)

Subst(self, m) ==
    /\ Len(instances) < MaxSubst
    /\ LET r == SubstInner(self, m, [store |-> store, parents |-> parents])
       IN  /\ store' = r.store
           /\ parents' = r.parents
           /\ decl_mapping' = r.decl_mapping
           /\ decl' = r.self
           /\ instances' = Append(instances, r.self)
    /\ last' = [op |-> "subst", self |-> self, m |-> m, j |-> 0, ret |-> "",
                returned |-> SubstInner(self, m, [store |-> store,
                                                  parents |-> parents]).returned,
                prev |-> [op |-> last.op, ret |-> last.ret]]
    /\ UNCHANGED <<template, handler, nfinal, cmp>>

\* self.subst_inner(type_mapping, engines)
SubstSelf(m) == Subst(decl, m)

\* template.clone() followed by subst_inner on the clone
SubstTemplate(m) == Subst(template, m)

Next ==
    \/ \E m \in TypeSubstMaps : SubstSelf(m)
    \/ \E m \in TypeSubstMaps : SubstTemplate(m)

Spec == Init /\ [][Next]_vars

----------------------------------------------------------------------------
(* Finalization: the pass runs on a type-checked trait or on an instantiated *)
(* copy of it.                                                               *)

\* decl.items[j].type_check_finalize(handler, ctx)
TypeCheckFinalize(j) ==
    /\ nfinal < MaxFinalize
    /\ j \in 1..Len(decl.items)
    /\ LET r == TypeCheckFinalizeItem(decl.items[j],
                    [store |-> store, handler |-> handler])
       IN  /\ store' = r.store
           /\ handler' = r.handler
           /\ last' = [op |-> "finalize_item", self |-> decl, m |-> NoMap, j |-> j,
                       ret |-> r.ret, returned |-> {},
                       prev |-> [op |-> last.op, ret |-> last.ret]]
    /\ nfinal' = nfinal + 1
    /\ UNCHANGED <<parents, template, decl, decl_mapping, instances, cmp>>

\* the finalization pass over decl.items
TypeCheckFinalizeAll ==
    /\ nfinal < MaxFinalize
    /\ LET r == TypeCheckFinalizeItems(decl.items,
                    [store |-> store, handler |-> handler])
       IN  /\ store' = r.store
           /\ handler' = r.handler
           /\ last' = [op |-> "finalize_items", self |-> decl, m |-> NoMap, j |-> 0,
                       ret |-> r.ret, returned |-> {},
                       prev |-> [op |-> last.op, ret |-> last.ret]]
    /\ nfinal' = nfinal + 1
    /\ UNCHANGED <<parents, template, decl, decl_mapping, instances, cmp>>

InitFinalize ==
    \E t \in Templates :
        /\ WellFormed(t)
        /\ \E inst \in {[store |-> t.store, parents |-> [i \in 1..Len(t.store) |-> 0],
                         decl_mapping |-> EmptyMapping, self |-> t.decl]}
                       \cup {SubstInner(t.decl, m, [store |-> t.store,
                                 parents |-> [i \in 1..Len(t.store) |-> 0]])
                             : m \in TypeSubstMaps} :
              /\ store = inst.store
              /\ parents = inst.parents
              /\ decl = inst.self
              /\ decl_mapping = inst.decl_mapping
              /\ instances = IF inst.self = t.decl THEN <<>> ELSE <<inst.self>>
        /\ template = t.decl
        /\ handler = 0
        /\ nfinal = 0
        /\ last = [op |-> "init", self |-> t.decl, m |-> NoMap, j |-> 0, ret |-> "",
                   returned |-> {}, prev |-> NoOp]
        /\ cmp = NoCmp

NextFinalize ==
    \/ \E j \in 1..MaxEntries : TypeCheckFinalize(j)
    \/ TypeCheckFinalizeAll

SpecFinalize == InitFinalize /\ [][NextFinalize]_vars

----------------------------------------------------------------------------
(* Equality and hashing: eq and hash are applied to pairs of declarations    *)
(* and to pairs of entries over one state of the engine, the one reached by  *)
(* type checking a trait with one entry of every variant and instantiating   *)
(* it twice with the same map, so that it holds equal bodies behind          *)
(* different handles as well as different bodies of one kind.                *)

Range(f) == {f[i] : i \in DOMAIN f}

EqTypeChecked ==
    TypeChecked(<<"TraitFn", "Constant", "Type">>, <<"Fn", "Constant", "Type">>,
                <<FALSE, FALSE, FALSE>>)

EqMap == [t \in TypeVars |-> "u64"]

EqFirst ==
    SubstInner(EqTypeChecked.decl, EqMap,
               [store   |-> EqTypeChecked.store,
                parents |-> [i \in 1..Len(EqTypeChecked.store) |-> 0]])

EqSecond ==
    SubstInner(EqTypeChecked.decl, EqMap,
               [store |-> EqFirst.store, parents |-> EqFirst.parents])

\* every handle of the engine, as an entry of either sequence
AllSurfaceEntries ==
    Range(EqTypeChecked.decl.interface_surface)
        \cup Range(EqFirst.self.interface_surface)
        \cup Range(EqSecond.self.interface_surface)

AllItemEntries ==
    Range(EqTypeChecked.decl.items) \cup Range(EqFirst.self.items)
        \cup Range(EqSecond.self.items)

\* the entries the compared declarations are made of: the template's, and
\* the functions of the two instantiations
SurfacePool ==
    Range(EqTypeChecked.decl.interface_surface)
        \cup {x \in AllSurfaceEntries : x.variant = "TraitFn"}

ItemPool ==
    Range(EqTypeChecked.decl.items) \cup {x \in AllItemEntries : x.variant = "Fn"}

\* the declarations given as the left operand
LeftDecls ==
    UNION { UNION { { TyTraitDecl(sf, it) :
                        sf \in [1..ns -> SurfacePool], it \in [1..ni -> ItemPool] }
                    : ni \in 0..(MaxCmpEntries - ns) }
            : ns \in 0..MaxCmpEntries }

Swap(xs, i, j) == [xs EXCEPT ![i] = xs[j], ![j] = xs[i]]

\* xs with two entries swapped, or with one entry replaced by another of pool
SeqEdits(xs, pool) ==
    {Swap(xs, i, j) : i, j \in 1..Len(xs)}
        \cup {[xs EXCEPT ![i] = h] : i \in 1..Len(xs), h \in pool}

\* a with at most one semantic difference: one field, or one sequence edited
SemanticEdits(a) ==
    {a,
     [a EXCEPT !.name = "Other"],
     [a EXCEPT !.type_parameters = <<"U">>],
     [a EXCEPT !.self_type = "Self2"],
     [a EXCEPT !.supertraits = <<"Super">>],
     [a EXCEPT !.visibility = "Private"]}
        \cup {[a EXCEPT !.interface_surface = xs] :
                 xs \in SeqEdits(a.interface_surface, SurfacePool)}
        \cup {[a EXCEPT !.items = xs] : xs \in SeqEdits(a.items, ItemPool)}

\* the right operands for a: a semantic edit and any change of presentation
RightDecls(a) ==
    {[b EXCEPT !.attributes = at, !.span = sp] :
        b \in SemanticEdits(a), at \in {"attrs0", "attrs1"}, sp \in {"span0", "span1"}}

Operands(kind, a, b) ==
    [kind |-> kind, a |-> a, b |-> b, done |-> {}, eq |-> FALSE,
     ha |-> <<>>, hb |-> <<>>]

InitEq ==
    /\ store = EqSecond.store
    /\ parents = EqSecond.parents
    /\ template = EqTypeChecked.decl
    /\ decl = EqSecond.self
    /\ decl_mapping = EqSecond.decl_mapping
    /\ instances = <<EqFirst.self, EqSecond.self>>
    /\ handler = 0
    /\ nfinal = 0
    /\ last = [op |-> "subst", self |-> EqTypeChecked.decl, m |-> EqMap,
               j |-> 0, ret |-> "", returned |-> EqSecond.returned,
               prev |-> [op |-> "subst", ret |-> ""]]
    /\ \/ \E a \in LeftDecls : \E b \in RightDecls(a) : cmp = Operands("decl", a, b)
       \/ \E x, y \in AllSurfaceEntries : cmp = Operands("surface", x, y)
       \/ \E x, y \in AllItemEntries : cmp = Operands("item", x, y)

\* a.eq(&b, engines) on two declarations
EqDecl ==
    /\ cmp.kind = "decl"
    /\ "eq" \notin cmp.done
    /\ cmp' = [cmp EXCEPT !.done = @ \cup {"eq"},
                          !.eq = TyTraitDeclEq(cmp.a, cmp.b, store)]
    /\ UNCHANGED <<store, parents, template, decl, decl_mapping, instances,
                   handler, nfinal, last>>

\* a.hash(state, engines) and b.hash(state, engines), each into a new Hasher
HashDecl ==
    /\ cmp.kind = "decl"
    /\ "hash" \notin cmp.done
    /\ cmp' = [cmp EXCEPT !.done = @ \cup {"hash"},
                          !.ha = TyTraitDeclHash(cmp.a, store),
                          !.hb = TyTraitDeclHash(cmp.b, store)]
    /\ UNCHANGED <<store, parents, template, decl, decl_mapping, instances,
                   handler, nfinal, last>>

\* x.eq(&y, engines) on two interface-surface entries
EqInterfaceItem ==
    /\ cmp.kind = "surface"
    /\ "eq" \notin cmp.done
    /\ cmp' = [cmp EXCEPT !.done = @ \cup {"eq"},
                          !.eq = TyTraitInterfaceItemEq(cmp.a, cmp.b, store)]
    /\ UNCHANGED <<store, parents, template, decl, decl_mapping, instances,
                   handler, nfinal, last>>

\* x.eq(&y, engines) on two provided items
EqItem ==
    /\ cmp.kind = "item"
    /\ "eq" \notin cmp.done
    /\ cmp' = [cmp EXCEPT !.done = @ \cup {"eq"},
                          !.eq = TyTraitItemEq(cmp.a, cmp.b, store)]
    /\ UNCHANGED <<store, parents, template, decl, decl_mapping, instances,
                   handler, nfinal, last>>

NextEq == EqDecl \/ HashDecl \/ EqInterfaceItem \/ EqItem

SpecEq == InitEq /\ [][NextEq]_vars

----------------------------------------------------------------------------
(* Properties of substitution (specification Spec) *)

SurfaceIds(d) == {d.interface_surface[i].id : i \in 1..Len(d.interface_surface)}
ItemIds(d) == {d.items[i].id : i \in 1..Len(d.items)}
Handles(d) == SurfaceIds(d) \cup ItemIds(d)

Substituted == last.op = "subst"

\* entry `new` of the result is the clone of entry `old` of the receiver:
\* another identity, of the same variant, holding the substituted body
IsCloneOf(new, old) ==
    /\ new.variant = old.variant
    /\ new.id \notin Handles(last.self)
    /\ new.id \in 1..Len(store)
    /\ store[new.id] = SubstBody(store[old.id], last.m)

C6_TemplateImmutable ==
    [][last'.op = "subst" =>
         /\ Len(store') >= Len(store)
         /\ \A id \in 1..Len(store) : store'[id] = store[id]
         /\ template' = template]_vars

\* after two substitutions the template's function signature still returns
\* T while the one of the instantiation returns the replacement
C6_Witness ==
    /\ Substituted
    /\ Len(instances) = 2
    /\ \E i \in 1..Len(template.interface_surface) :
          /\ template.interface_surface[i].variant = "TraitFn"
          /\ store[template.interface_surface[i].id].ty = "T"
          /\ store[decl.interface_surface[i].id].ty = last.m["T"]

(* C7: after a substitution every handle of the result's interface surface   *)
(* and items differs from the handle at the same position of the receiver    *)
(* and did not exist in the store before; the instantiations made so far     *)
(* share no handle with the template or with each other.                     *)
C7_DisjointIdentities ==
    /\ [][last'.op = "subst" =>
            /\ \A i \in 1..Len(decl'.interface_surface) :
                  /\ decl'.interface_surface[i].id
                        # last'.self.interface_surface[i].id
                  /\ decl'.interface_surface[i].id \notin 1..Len(store)
                  /\ decl'.interface_surface[i].id \in 1..Len(store')
            /\ \A j \in 1..Len(decl'.items) :
                  /\ decl'.items[j].id # last'.self.items[j].id
                  /\ decl'.items[j].id \notin 1..Len(store)
                  /\ decl'.items[j].id \in 1..Len(store')
            /\ Cardinality(Handles(decl')) =
                  Len(decl'.interface_surface) + Len(decl'.items)]_vars
    /\ [](\A p \in 1..Len(instances) :
             /\ Handles(instances[p]) \cap Handles(template) = {}
             /\ \A q \in 1..Len(instances) :
                   p # q => Handles(instances[p]) \cap Handles(instances[q]) = {})

\* two instantiations of a template with entries in both sequences
C7_Witness ==
    /\ Substituted
    /\ Len(instances) = 2
    /\ Len(template.interface_surface) >= 1
    /\ Len(template.items) >= 1
    /\ last.self = template
    /\ Handles(instances[1]) # {}
    /\ Handles(instances[1]) \cap Handles(instances[2]) = {}

(* C8: after a substitution the Declaration Mapping maps the old handle of   *)
(* every function-signature and constant entry of the interface surface to   *)
(* the handle of its new clone, and has no key for an associated-type entry. *)
C8_SurfaceMapping ==
    Substituted =>
        /\ Len(decl.interface_surface) = Len(last.self.interface_surface)
        /\ \A i \in 1..Len(last.self.interface_surface) :
              LET old == last.self.interface_surface[i]
                  new == decl.interface_surface[i]
              IN  IF old.variant \in {"TraitFn", "Constant"}
                  THEN /\ old.id \in DOMAIN decl_mapping
                       /\ decl_mapping[old.id] = new.id
                       /\ IsCloneOf(new, old)
                  ELSE old.id \notin DOMAIN decl_mapping

\* a substitution of a surface holding a function, a constant and a type
C8_Witness ==
    /\ Substituted
    /\ {last.self.interface_surface[i].variant :
           i \in 1..Len(last.self.interface_surface)} = InterfaceVariants
    /\ Cardinality(DOMAIN decl_mapping) = 2

(* C11 as stated: when a substitution has built a Declaration Mapping for     *)
(* the interface surface, that mapping is among what the call hands to its   *)
(* caller once it completes.                                                 *)
C11_MappingReturned ==
    (Substituted /\ decl_mapping # EmptyMapping) => decl_mapping \in last.returned

(* C15: after a substitution the clone of every function signature of the   *)
(* interface surface and the clone of every provided item, whatever its      *)
(* variant, has the entry it was cloned from as its parent in the            *)
(* declaration engine; the clones of the constants and of the associated     *)
(* types of the interface surface have no parent.                            *)
C15_ParentAssociation ==
    Substituted =>
        /\ \A i \in 1..Len(last.self.interface_surface) :
              LET old == last.self.interface_surface[i]
                  new == decl.interface_surface[i]
              IN  parents[new.id] = (IF old.variant = "TraitFn" THEN old.id ELSE 0)
        /\ \A j \in 1..Len(last.self.items) :
              parents[decl.items[j].id] = last.self.items[j].id

\* a substitution of a surface with a function signature and a constant, and
\* of a provided constant: the first and the last have a parent
C15_Witness ==
    /\ Substituted
    /\ \E i, k \in 1..Len(decl.interface_surface) :
          /\ decl.interface_surface[i].variant = "TraitFn"
          /\ parents[decl.interface_surface[i].id] = last.self.interface_surface[i].id
          /\ decl.interface_surface[k].variant = "Constant"
          /\ parents[decl.interface_surface[k].id] = 0
    /\ \E j \in 1..Len(decl.items) :
          /\ decl.items[j].variant = "Constant"
          /\ parents[decl.items[j].id] = last.self.items[j].id
          /\ last.self.items[j].id # decl.items[j].id

\* a substitution with map m has put behind `new` the body that was behind
\* `old` with m applied, and `old` resolves to what it resolved to before
ResolvesSubstituted(new, old, m) ==
    /\ DeclEngineGet(store', new.id) = SubstBody(DeclEngineGet(store, old.id), m)
    /\ DeclEngineGet(store', new.id).ty =
          (IF DeclEngineGet(store, old.id).ty \in DOMAIN m
           THEN m[DeclEngineGet(store, old.id).ty]
           ELSE DeclEngineGet(store, old.id).ty)
    /\ DeclEngineGet(store', old.id) = DeclEngineGet(store, old.id)

(* C13: after a substitution, for every interface-surface entry and every    *)
(* item, the body behind the new handle is the body that was behind the old  *)
(* handle with the type-substitution map applied (a signature returning T    *)
(* returns u64 under T -> u64), and the old handle still resolves to the     *)
(* body it resolved to before.                                               *)
C13_SubstResultCorrect ==
    [][last'.op = "subst" =>
         /\ \A i \in 1..Len(last'.self.interface_surface) :
               ResolvesSubstituted(decl'.interface_surface[i],
                                   last'.self.interface_surface[i], last'.m)
         /\ \A j \in 1..Len(last'.self.items) :
               ResolvesSubstituted(decl'.items[j], last'.self.items[j], last'.m)]_vars

\* trait Show<T> { fn show(self) -> T; } with a provided function, substituted
\* with T -> u64: the new handles return u64, the template's still return T
C13_Witness ==
    /\ Substituted
    /\ last.self = template
    /\ last.m["T"] = "u64"
    /\ \E i \in 1..Len(template.interface_surface) :
          /\ template.interface_surface[i].variant = "TraitFn"
          /\ decl.interface_surface[i].id # template.interface_surface[i].id
          /\ store[decl.interface_surface[i].id].ty = "u64"
          /\ store[template.interface_surface[i].id].ty = "T"
    /\ \E j \in 1..Len(template.items) :
          /\ template.items[j].variant = "Fn"
          /\ decl.items[j].id # template.items[j].id
          /\ store[decl.items[j].id].ty = "u64"
          /\ store[template.items[j].id].ty = "T"

(* C17: a substitution keeps the length of interface_surface and of items    *)
(* and, position by position, the variant of every entry and the body it     *)
(* was cloned from; it leaves name, self_type, supertraits, visibility,      *)
(* attributes and span as they were, self_type also when the map binds it;   *)
(* and the store has exactly one more entry for every entry of the           *)
(* interface surface and one more for every item.                            *)
C17_SubstFrame ==
    [][last'.op = "subst" =>
         /\ Len(decl'.interface_surface) = Len(last'.self.interface_surface)
         /\ \A i \in 1..Len(last'.self.interface_surface) :
               /\ decl'.interface_surface[i].variant
                     = last'.self.interface_surface[i].variant
               /\ DeclEngineGet(store', decl'.interface_surface[i].id).kind
                     = DeclEngineGet(store, last'.self.interface_surface[i].id).kind
         /\ Len(decl'.items) = Len(last'.self.items)
         /\ \A j \in 1..Len(last'.self.items) :
               /\ decl'.items[j].variant = last'.self.items[j].variant
               /\ DeclEngineGet(store', decl'.items[j].id).bad
                     = DeclEngineGet(store, last'.self.items[j].id).bad
         /\ decl'.name = last'.self.name
         /\ decl'.self_type = last'.self.self_type
         /\ decl'.supertraits = last'.self.supertraits
         /\ decl'.visibility = last'.self.visibility
         /\ decl'.attributes = last'.self.attributes
         /\ decl'.span = last'.self.span
         /\ Len(store') = Len(store) + Len(last'.self.interface_surface)
                                     + Len(last'.self.items)]_vars

\* a substitution whose map binds Self, of a declaration with entries in both
\* sequences: the type parameter is replaced, self_type is not
C17_Witness ==
    /\ Substituted
    /\ "Self" \in DOMAIN last.m
    /\ decl.self_type = "Self"
    /\ decl.type_parameters = <<last.m["T"]>>
    /\ Len(decl.interface_surface) >= 1
    /\ Len(decl.items) >= 2
    /\ decl.items[1].variant # decl.items[2].variant
    /\ Len(store) = 2 * (Len(decl.interface_surface) + Len(decl.items))

----------------------------------------------------------------------------
(* Properties of finalization (specification SpecFinalize) *)

HasBody(item) == item.variant \in {"Fn", "Constant"}

\* the function and constant items of d whose body finalization fails in st
Failing(d, st) ==
    {j \in 1..Len(d.items) : HasBody(d.items[j]) /\ ~FinalizeOk(st[d.items[j].id])}

(* C5: when the pass finalizes a sequence of items and some item fails,      *)
(* every function or constant item that does not fail is still finalized and *)
(* written back behind its own handle, the failing ones and everything else  *)
(* in the store stay as they were, each failure has emitted its diagnostic,  *)
(* and the pass returns the sentinel, once, exactly when some item failed.   *)
C5_PartialFailureContinuation ==
    [][last'.op = "finalize_items" =>
         /\ \A j \in 1..Len(decl.items) :
               LET id == decl.items[j].id
               IN  IF HasBody(decl.items[j]) /\ FinalizeOk(store[id])
                   THEN store'[id] = FinalizeBody(store[id])
                   ELSE store'[id] = store[id]
         /\ \A id \in (1..Len(store)) \ ItemIds(decl) : store'[id] = store[id]
         /\ Len(store') = Len(store)
         /\ handler' = handler + Cardinality(Failing(decl, store))
         /\ last'.ret = (IF Failing(decl, store) = {} THEN "Ok" ELSE "Err")
         /\ decl' = decl]_vars

\* three items, the second of which failed: the first and the third have
\* been written back, one sentinel for one diagnostic
C5_Witness ==
    /\ last.op = "finalize_items"
    /\ last.ret = "Err"
    /\ nfinal = 1
    /\ handler = 1
    /\ Len(decl.items) = 3
    /\ \A j \in 1..3 : HasBody(decl.items[j])
    /\ store[decl.items[1].id].fin
    /\ store[decl.items[2].id].bad /\ ~store[decl.items[2].id].fin
    /\ store[decl.items[3].id].fin

(* C9: a successful finalization of a function or constant item writes the   *)
(* finalized body back behind the item's own handle: the handle and the      *)
(* declaration are unchanged, the store has no new entry, no other entry     *)
(* changes, and a get through any copy of the handle (the template's, when   *)
(* the declaration is the template) returns the finalized body.              *)
C9_FinalizePreservesIdentity ==
    [][(/\ last'.op = "finalize_item"
        /\ last'.ret = "Ok"
        /\ HasBody(decl.items[last'.j])) =>
         LET id == decl.items[last'.j].id
         IN  /\ decl' = decl
             /\ template' = template
             /\ Len(store') = Len(store)
             /\ DeclEngineGet(store', id) = FinalizeBody(DeclEngineGet(store, id))
             /\ \A k \in 1..Len(instances') : \A j \in 1..Len(instances'[k].items) :
                   instances'[k].items[j].id = id =>
                       DeclEngineGet(store', instances'[k].items[j].id).fin
             /\ \A j \in 1..Len(template'.items) :
                   template'.items[j].id = id =>
                       DeclEngineGet(store', template'.items[j].id).fin
             /\ \A other \in (1..Len(store)) \ {id} : store'[other] = store[other]
             /\ handler' = handler]_vars

\* a function item whose body was not finalized has been finalized, and the
\* template's copy of the handle resolves to the finalized body
C9_Witness ==
    /\ last.op = "finalize_item"
    /\ last.ret = "Ok"
    /\ nfinal = 1
    /\ decl = template
    /\ decl.items[last.j].variant = "Fn"
    /\ store[template.items[last.j].id].fin
    /\ \E id \in 1..Len(store) : ~store[id].fin

C14_FinalizeTypeNoOp ==
    [][(/\ last'.op = "finalize_item"
        /\ nfinal' = nfinal + 1
        /\ decl.items[last'.j].variant = "Type") =>
         /\ store' = store
         /\ parents' = parents
         /\ decl'.items[last'.j] = decl.items[last'.j]
         /\ decl' = decl
         /\ handler' = handler
         /\ last'.ret = "Ok"]_vars

\* an associated-type item has been finalized: its body is as type checking
\* left it
C14_Witness ==
    /\ last.op = "finalize_item"
    /\ decl.items[last.j].variant = "Type"
    /\ last.ret = "Ok"
    /\ nfinal = 1
    /\ handler = 0
    /\ ~store[decl.items[last.j].id].fin

(* C16: when the finalization of the body of a function or constant item     *)
(* fails, type_check_finalize on the item returns the error and the store is *)
(* what it was before the call: the body behind the item's handle and every  *)
(* other entry.                                                              *)
C16_FailedFinalizeLeavesStore ==
    [][(/\ last'.op = "finalize_item"
        /\ nfinal' = nfinal + 1
        /\ HasBody(decl.items[last'.j])
        /\ ~FinalizeOk(DeclEngineGet(store, decl.items[last'.j].id))) =>
         /\ last'.ret = "Err"
         /\ DeclEngineGet(store', decl.items[last'.j].id)
               = DeclEngineGet(store, decl.items[last'.j].id)
         /\ store' = store
         /\ decl' = decl]_vars

\* the finalization of a function item has failed: one diagnostic, and the
\* body behind its handle is not finalized
C16_Witness ==
    /\ last.op = "finalize_item"
    /\ last.ret = "Err"
    /\ nfinal = 1
    /\ handler = 1
    /\ decl.items[last.j].variant = "Fn"
    /\ ~FinalizeOk(store[decl.items[last.j].id])
    /\ ~store[decl.items[last.j].id].fin

----------------------------------------------------------------------------
(* Properties of equality and hashing (specification SpecEq) *)

Compared(kind) == cmp.kind = kind /\ "eq" \in cmp.done

Hashed == cmp.kind = "decl" /\ "hash" \in cmp.done

\* b is a but for its attributes and its span
OnlyPresentationDiffers(a, b) ==
    [b EXCEPT !.attributes = a.attributes, !.span = a.span] = a

\* the same variant and equal bodies behind the handles
SameVariantAndBody(x, y) ==
    x.variant = y.variant /\ DeclEngineGet(store, x.id) = DeclEngineGet(store, y.id)

(* C1: two Trait Declarations that are equal under the context have equal    *)
(* hashes under it.                                                          *)
C1_HashEqConsistent ==
    (Compared("decl") /\ Hashed /\ cmp.eq) => cmp.ha = cmp.hb

(* C2: two interface-surface entries, and two provided items, are equal      *)
(* exactly when they are of the same variant and the bodies behind their     *)
(* handles are equal, for all three variants.                                *)
C2_ItemEqByVariantAndBody ==
    (Compared("surface") \/ Compared("item")) =>
        (cmp.eq <=> SameVariantAndBody(cmp.a, cmp.b))

(* C3: two Trait Declarations that differ only in span and attributes are    *)
(* equal and have equal hashes, whatever the variants of their entries.      *)
C3_EqIgnoresPresentation ==
    (/\ Compared("decl") /\ Hashed
     /\ cmp.a # cmp.b
     /\ OnlyPresentationDiffers(cmp.a, cmp.b)) =>
        (cmp.eq /\ cmp.ha = cmp.hb)

(* C10: a declaration whose interface surface, or whose items, are those of  *)
(* another with two entries swapped that differ in variant or in body, all   *)
(* other fields being identical, is not equal to it.                         *)
C10_EqOrderSensitive ==
    Compared("decl") =>
        /\ (\E i, j \in 1..Len(cmp.a.interface_surface) :
               /\ ~SameVariantAndBody(cmp.a.interface_surface[i],
                                      cmp.a.interface_surface[j])
               /\ cmp.b = [cmp.a EXCEPT !.interface_surface = Swap(@, i, j)])
           => ~cmp.eq
        /\ (\E i, j \in 1..Len(cmp.a.items) :
               /\ ~SameVariantAndBody(cmp.a.items[i], cmp.a.items[j])
               /\ cmp.b = [cmp.a EXCEPT !.items = Swap(@, i, j)])
           => ~cmp.eq

\* a function signature and a constant, each equal to itself, were swapped
C10_Witness ==
    /\ Compared("decl")
    /\ Len(cmp.a.interface_surface) = 2
    /\ cmp.a.interface_surface[1].variant = "TraitFn"
    /\ cmp.a.interface_surface[2].variant = "Constant"
    /\ cmp.b = [cmp.a EXCEPT !.interface_surface = Swap(@, 1, 2)]
    /\ TyTraitDeclEq(cmp.a, cmp.a, store)
    /\ ~cmp.eq

=============================================================================
